---- MODULE Spec2Model ----
(***************************************************************************)
(* A model of scripts/ai_code_reviewer.py: the repository context          *)
(* collector, the message builder and the review orchestrator (main).      *)
(*                                                                         *)
(* Texts are sequences whose elements are one-character strings.  The      *)
(* fixed sentences and fence markers of the message templates are single   *)
(* elements ("atoms"): each starts with a non-blank character and holds    *)
(* no line break, which is all textwrap.dedent looks at.                   *)
(***************************************************************************)
EXTENDS Integers, Sequences, FiniteSets, TLC

VARIABLES
    pc,              \* position of main: start .. exited
    environ,         \* os.environ["OPENAI_API_KEY"]: NoneVal when unset
    run_timeout,     \* RUN_TIMEOUT (module level, line 43)
    prompt_exists,   \* PROMPT_PATH.exists()
    prompt_text,     \* the prompt file's text
    args,            \* the parsed command line: [commit, no_context] or NoneVal
    diff,            \* main's diff / build_messages' first parameter
    context,         \* main's context / build_messages' second parameter
    messages,        \* the conversation built by build_messages
    stderr,          \* what was printed on standard error, in order
    stdout,          \* what was printed on standard output, in order
    exit_code,       \* the process's exit status, NoneVal while running
    subprocess_calls,\* number of subprocess.run invocations
    network_calls,   \* number of chat-completion requests
    git_outcome,     \* how the git show subprocess ended, NoneVal before it ran
    cpc,             \* position of collect_repo_context: idle, loop, returned
    repo_root,       \* collect_repo_context's repo_root, as path parts
    tree,            \* the files below repo_root
    max_chars,       \* collect_repo_context's max_chars
    entries,         \* sorted(repo_root.rglob("*"))
    idx,             \* index of the loop's current entry
    context_chunks,  \* the chunks appended so far
    current_len,     \* running total length
    result           \* collect_repo_context's return value

vars == <<pc, environ, run_timeout, prompt_exists, prompt_text, args, diff,
          context, messages, stderr, stdout, exit_code, subprocess_calls,
          network_calls, git_outcome, cpc, repo_root, tree, max_chars, entries, idx,
          context_chunks, current_len, result>>

mainVars == <<pc, environ, run_timeout, prompt_exists, prompt_text, args, diff,
              context, messages, stderr, stdout, exit_code, subprocess_calls,
              network_calls, git_outcome>>

collectVars == <<cpc, repo_root, tree, max_chars, entries, idx,
                 context_chunks, current_len, result>>

\* Optional values: Python's None, and a value that is present.
NoneVal == <<>>
Some(v) == <<v>>

(***************************************************************************)
(* Generic helpers on sequences.                                           *)
(***************************************************************************)
RECURSIVE Flatten(_)
Flatten(ss) == IF ss = <<>> THEN <<>> ELSE Head(ss) \o Flatten(Tail(ss))

RECURSIVE SeqsUpTo(_, _)
SeqsUpTo(S, n) ==
    IF n = 0 THEN {<<>>}
    ELSE LET shorter == SeqsUpTo(S, n - 1)
         IN  shorter \cup {Append(s, c) : s \in {t \in shorter : Len(t) = n - 1}, c \in S}

\* s occurs in t as a contiguous run (Python's "s in t").
Contains(t, s) ==
    \E i \in 0..(Len(t) - Len(s)) : SubSeq(t, i + 1, i + Len(s)) = s

(***************************************************************************)
(* Characters, names and paths.                                            *)
(***************************************************************************)
\* Code points of the characters that occur in path names of the model.
Code ==
    ("." :> 46) @@ ("/" :> 47) @@ ("G" :> 71) @@ ("N" :> 78) @@ ("P" :> 80) @@
    ("a" :> 97) @@ ("b" :> 98) @@ ("d" :> 100) @@ ("e" :> 101) @@ ("g" :> 103) @@
    ("h" :> 104) @@ ("m" :> 109) @@ ("n" :> 110) @@ ("p" :> 112) @@ ("v" :> 118) @@
    ("y" :> 121) @@ ("z" :> 122)

\* str.lower() on one character.
LowerChar(c) ==
    CASE c = "G" -> "g"
      [] c = "N" -> "n"
      [] c = "P" -> "p"
      [] OTHER -> c

Lower(s) == [i \in 1..Len(s) |-> LowerChar(s[i])]

\* Python's < on str: lexicographic by code point.
RECURSIVE StrLess(_, _)
StrLess(s, t) ==
    IF t = <<>> THEN FALSE
    ELSE IF s = <<>> THEN TRUE
    ELSE IF Code[Head(s)] # Code[Head(t)] THEN Code[Head(s)] < Code[Head(t)]
    ELSE StrLess(Tail(s), Tail(t))

\* Path.__lt__: the parts are compared as lists of names.
RECURSIVE PathLess(_, _)
PathLess(p, q) ==
    IF q = <<>> THEN FALSE
    ELSE IF p = <<>> THEN TRUE
    ELSE IF Head(p) # Head(q) THEN StrLess(Head(p), Head(q))
    ELSE PathLess(Tail(p), Tail(q))

\* Index of the last "." of a name, 0 when there is none (str.rfind + 1).
RECURSIVE RFindDot(_, _)
RFindDot(name, i) ==
    IF i = 0 THEN 0
    ELSE IF name[i] = "." THEN i
    ELSE RFindDot(name, i - 1)

\* PurePath.suffix: the last name from its last dot, unless that dot is the
\* name's first or last character.
Suffix(path) ==
    LET name == path[Len(path)]
        i    == RFindDot(name, Len(name))
    IN  IF 1 < i /\ i < Len(name) THEN SubSeq(name, i, Len(name)) ELSE <<>>

\* str(path.relative_to(repo_root)): the parts joined by "/".
RECURSIVE JoinPath(_)
JoinPath(parts) ==
    IF parts = <<>> THEN <<>>
    ELSE IF Len(parts) = 1 THEN parts[1]
    ELSE parts[1] \o <<"/">> \o JoinPath(Tail(parts))

EXCLUDE_DIRS ==
    { <<".", "g", "i", "t">>,
      <<"n", "o", "d", "e", "_", "m", "o", "d", "u", "l", "e", "s">>,
      <<"v", "e", "n", "v">>,
      <<"_", "_", "p", "y", "c", "a", "c", "h", "e", "_", "_">>,
      <<".", "m", "y", "p", "y", "_", "c", "a", "c", "h", "e">> }

EXCLUDE_EXTENSIONS ==
    { <<".", "p", "n", "g">>, <<".", "j", "p", "g">>, <<".", "j", "p", "e", "g">>,
      <<".", "g", "i", "f">>, <<".", "s", "v", "g">>, <<".", "p", "d", "f">>,
      <<".", "z", "i", "p">>, <<".", "g", "z">>, <<".", "t", "a", "r">>,
      <<".", "s", "q", "l", "i", "t", "e">> }

(***************************************************************************)
(* The directory trees the collector is run on.                            *)
(***************************************************************************)
N_a_py  == <<"a", ".", "p", "y">>
N_b_PNG == <<"b", ".", "P", "N", "G">>
N_d     == <<"d">>
N_e_md  == <<"e", ".", "m", "d">>
N_m_md  == <<"m", ".", "m", "d">>
N_z_md  == <<"z", ".", "m", "d">>
N_venv  == <<"v", "e", "n", "v">>
N_dotpng == <<".", "p", "n", "g">>

File(path, decodable, text) ==
    [path |-> path, is_dir |-> FALSE, decodable |-> decodable, text |-> text]

Dir(path) == [path |-> path, is_dir |-> TRUE, decodable |-> FALSE, text |-> <<>>]

\* The files a tree is drawn from (paths relative to the root): a dot file,
\* a source file, an image name with valid text inside, a large nested text
\* file, a file that is not UTF-8, a file below a nested excluded directory,
\* and a small nested text file that sorts last.
CandidateFiles ==
    { File(<<N_dotpng>>, TRUE, <<>>),
      File(<<N_a_py>>, TRUE, <<"x">>),
      File(<<N_b_PNG>>, TRUE, <<"x">>),
      File(<<N_d, N_e_md>>, TRUE, <<"x", "x", "x", "x">>),
      File(<<N_d, N_m_md>>, FALSE, <<>>),
      File(<<N_d, N_venv, N_a_py>>, TRUE, <<"x">>),
      File(<<N_d, N_z_md>>, TRUE, <<"x">>) }

Trees == SUBSET CandidateFiles

\* Where the root lies: an ordinary place, and below a directory that is
\* named like an excluded one.
PlainRoot == <<<<"/">>, <<"h">>, <<"p">>>>
VenvRoot  == <<<<"/">>, <<"h">>, N_venv, <<"p">>>>
Roots == {PlainRoot, VenvRoot}

\* Largest budget tried; the smallest is -1.
MaxBudget == 76
Budgets == (-1)..MaxBudget

\* repo_root.rglob("*"): every file and every directory below the root.
RGlob(t) ==
    t \cup UNION { { Dir(SubSeq(f.path, 1, n)) : n \in 1..(Len(f.path) - 1) } : f \in t }

RECURSIVE SortedSeq(_)
SortedSeq(S) ==
    IF S = {} THEN <<>>
    ELSE LET m == CHOOSE x \in S : \A y \in S : y = x \/ PathLess(x.path, y.path)
         IN  <<m>> \o SortedSeq(S \ {m})

\* sorted(repo_root.rglob("*")): the root is a common prefix of every path,
\* so the order is that of the relative parts.
SortedEntries(t) == SortedSeq(RGlob(t))

(***************************************************************************)
(* collect_repo_context                                                    *)
(***************************************************************************)
\* A variant that tests only the first name below the root.
ExcludedByDirTopOnly(root, rel) == rel[1] \in EXCLUDE_DIRS

\* any(part in EXCLUDE_DIRS for part in path.parts), path = root / rel:
\* every part of the full path is tested, the root's own parts included.
ExcludedByDir(root, rel) ==
    \E i \in 1..Len(root \o rel) : (root \o rel)[i] \in EXCLUDE_DIRS

\* path.suffix.lower() in EXCLUDE_EXTENSIONS
ExcludedByExtension(rel) == Lower(Suffix(rel)) \in EXCLUDE_EXTENSIONS

\* f"\n\n# File: {path.relative_to(repo_root)}\n\n"
ChunkHeader(rel) ==
    <<"\n", "\n", "#", " ", "F", "i", "l", "e", ":", " ">> \o JoinPath(rel) \o <<"\n", "\n">>

Chunk(rel, text) == ChunkHeader(rel) \o text

\* A variant that tests the running total before the chunk is added.
OverBudgetBeforeAdding(cur, chunk, limit) == cur > limit

\* current_len + len(chunk) > max_chars
OverBudget(cur, chunk, limit) == cur + Len(chunk) > limit

InLoop == cpc = "loop" /\ idx <= Len(entries)
Entry == entries[idx]

Continue ==
    /\ idx' = idx + 1
    /\ UNCHANGED <<cpc, repo_root, tree, max_chars, entries, context_chunks,
                   current_len, result>>

\* lines 96-97
SkipExcludedDir ==
    /\ InLoop
    /\ ExcludedByDir(repo_root, Entry.path)
    /\ Continue
    /\ UNCHANGED mainVars

\* lines 99-101
SkipDirectory ==
    /\ InLoop
    /\ ~ExcludedByDir(repo_root, Entry.path)
    /\ Entry.is_dir
    /\ Continue
    /\ UNCHANGED mainVars

\* lines 103-104
SkipExtension ==
    /\ InLoop
    /\ ~ExcludedByDir(repo_root, Entry.path)
    /\ ~Entry.is_dir
    /\ ExcludedByExtension(Entry.path)
    /\ Continue
    /\ UNCHANGED mainVars

Readable ==
    /\ InLoop
    /\ ~ExcludedByDir(repo_root, Entry.path)
    /\ ~Entry.is_dir
    /\ ~ExcludedByExtension(Entry.path)

\* lines 106-110: read_text raises, the file is skipped
SkipUndecodable ==
    /\ Readable
    /\ ~Entry.decodable
    /\ Continue
    /\ UNCHANGED mainVars

\* A variant that goes on to the next entry instead of leaving the loop.
StopOverBudgetContinue ==
    /\ InLoop
    /\ ~ExcludedByDir(repo_root, Entry.path)
    /\ ~Entry.is_dir
    /\ ~ExcludedByExtension(Entry.path)
    /\ Entry.decodable
    /\ OverBudget(current_len, Chunk(Entry.path, Entry.text), max_chars)
    /\ Continue
    /\ UNCHANGED mainVars

\* lines 115-117: break
StopOverBudget ==
    /\ Readable
    /\ Entry.decodable
    /\ OverBudget(current_len, Chunk(Entry.path, Entry.text), max_chars)
    /\ cpc' = "returned"
    /\ result' = Some(Flatten(context_chunks))
    /\ UNCHANGED <<repo_root, tree, max_chars, entries, idx, context_chunks, current_len>>
    /\ UNCHANGED mainVars

\* lines 119-120
AppendChunk ==
    /\ Readable
    /\ Entry.decodable
    /\ ~OverBudget(current_len, Chunk(Entry.path, Entry.text), max_chars)
    /\ context_chunks' = Append(context_chunks, Chunk(Entry.path, Entry.text))
    /\ current_len' = current_len + Len(Chunk(Entry.path, Entry.text))
    /\ idx' = idx + 1
    /\ UNCHANGED <<cpc, repo_root, tree, max_chars, entries, result>>
    /\ UNCHANGED mainVars

\* line 122, the loop having run out of entries
ReturnContext ==
    /\ cpc = "loop"
    /\ idx > Len(entries)
    /\ cpc' = "returned"
    /\ result' = Some(Flatten(context_chunks))
    /\ UNCHANGED <<repo_root, tree, max_chars, entries, idx, context_chunks, current_len>>
    /\ UNCHANGED mainVars

CollectStep ==
    \/ SkipExcludedDir
    \/ SkipDirectory
    \/ SkipExtension
    \/ SkipUndecodable
    \/ StopOverBudget
    \/ AppendChunk
    \/ ReturnContext

\* The state at a call collect_repo_context(root, limit) on tree t:
\* lines 90-93.
CollectEntered(root, t, limit) ==
    /\ cpc = "loop"
    /\ repo_root = root
    /\ tree = t
    /\ max_chars = limit
    /\ entries = SortedEntries(t)
    /\ idx = 1
    /\ context_chunks = <<>>
    /\ current_len = 0
    /\ result = NoneVal

MainIdle ==
    /\ pc = "not_main"
    /\ environ = NoneVal
    /\ run_timeout = 0
    /\ prompt_exists = FALSE
    /\ prompt_text = <<>>
    /\ args = NoneVal
    /\ diff = NoneVal
    /\ context = NoneVal
    /\ messages = <<>>
    /\ stderr = <<>>
    /\ stdout = <<>>
    /\ exit_code = NoneVal
    /\ subprocess_calls = 0
    /\ network_calls = 0
    /\ git_outcome = "not_run"

\* collect_repo_context called on its own, on every tree, root and budget.
InitCollect ==
    /\ MainIdle
    /\ \E root \in Roots, t \in Trees, limit \in Budgets : CollectEntered(root, t, limit)

SpecCollect == InitCollect /\ [][CollectStep]_vars

(***************************************************************************)
(* build_messages                                                          *)
(***************************************************************************)
LEAD_DIFF    == "Here is the diff of the latest commit:"
\* The opening fence of the diff block (three backquotes and "diff") and the
\* plain fence (three backquotes).
FENCE_DIFF   == "[fence]diff"
FENCE        == "[fence]"
LEAD_CONTEXT == "Here is additional project context (truncated if necessary):"

\* The built-in instruction, lines 144-149.
DEFAULT_SYSTEM ==
    <<"You are a senior Python code reviewer. Provide constructive, actionable feedback focused on readability, efficiency, security, testing, and maintainability. Reference file paths / line numbers from the diff. Respond with a brief summary followed by bullet-pointed issues and concrete suggestions. Praise positives too.">>

Blank == {" ", "\t"}
Whitespace == {" ", "\t", "\n"}

Spaces(n) == [i \in 1..n |-> " "]

\* str.strip()
RECURSIVE LStrip(_)
LStrip(s) == IF s # <<>> /\ Head(s) \in Whitespace THEN LStrip(Tail(s)) ELSE s

RECURSIVE RStrip(_)
RStrip(s) ==
    IF s # <<>> /\ s[Len(s)] \in Whitespace THEN RStrip(SubSeq(s, 1, Len(s) - 1)) ELSE s

Strip(s) == RStrip(LStrip(s))

\* text.split("\n"): line k runs from after the (k-1)-th line break to before
\* the k-th.
SplitLines(text) ==
    LET breaks   == {i \in 1..Len(text) : text[i] = "\n"}
        nth(k)   == CHOOSE i \in breaks : Cardinality({j \in breaks : j < i}) = k - 1
        first(k) == IF k = 1 THEN 1 ELSE nth(k - 1) + 1
        last(k)  == IF k = Cardinality(breaks) + 1 THEN Len(text) ELSE nth(k) - 1
    IN  [k \in 1..(Cardinality(breaks) + 1) |-> SubSeq(text, first(k), last(k))]

\* "\n".join(lines)
RECURSIVE JoinLines(_)
JoinLines(lines) ==
    IF Len(lines) = 1 THEN lines[1]
    ELSE lines[1] \o <<"\n">> \o JoinLines(Tail(lines))

IsBlankLine(l) == \A i \in 1..Len(l) : l[i] \in Blank

RECURSIVE LeadingBlank(_)
LeadingBlank(l) ==
    IF l # <<>> /\ Head(l) \in Blank THEN <<Head(l)>> \o LeadingBlank(Tail(l)) ELSE <<>>

RECURSIVE CommonPrefix(_, _)
CommonPrefix(a, b) ==
    IF a # <<>> /\ b # <<>> /\ Head(a) = Head(b)
    THEN <<Head(a)>> \o CommonPrefix(Tail(a), Tail(b))
    ELSE <<>>

RECURSIVE Margin(_, _)
Margin(indents, margin) ==
    IF indents = <<>> THEN margin
    ELSE Margin(Tail(indents), CommonPrefix(margin, Head(indents)))

\* textwrap.dedent: lines of blanks only become empty, and the longest run of
\* leading blanks common to all other lines is removed from each of them.
Dedent(text) ==
    LET lines   == SplitLines(text)
        indents == [i \in 1..Len(lines) |-> LeadingBlank(lines[i])]
        marked  == SelectSeq([i \in 1..Len(lines) |-> <<indents[i], IsBlankLine(lines[i])>>],
                             LAMBDA x : ~x[2])
        margin  == IF marked = <<>> THEN <<>>
                   ELSE Margin([i \in 1..Len(marked) |-> marked[i][1]], marked[1][1])
    IN  JoinLines([i \in 1..Len(lines) |->
            IF IsBlankLine(lines[i]) THEN <<>>
            ELSE SubSeq(lines[i], Len(margin) + 1, Len(lines[i]))])

\* The f-string of lines 152-157, the diff put in after eight spaces.
DiffTemplate(d) ==
    <<"\n">> \o Spaces(8) \o <<LEAD_DIFF, "\n">>
             \o Spaces(8) \o <<FENCE_DIFF, "\n">>
             \o Spaces(8) \o d \o <<"\n">>
             \o Spaces(8) \o <<FENCE, "\n">>
             \o Spaces(8)

\* The f-string of lines 162-168, the context put in after twelve spaces.
ContextTemplate(c) ==
    <<"\n", "\n">> \o Spaces(12) \o <<LEAD_CONTEXT, "\n">>
                   \o Spaces(12) \o <<FENCE, "\n">>
                   \o Spaces(12) \o c \o <<"\n">>
                   \o Spaces(12) \o <<FENCE, "\n">>
                   \o Spaces(12)

\* lines 141-149
SystemMessage(exists, text) == IF exists THEN Strip(text) ELSE DEFAULT_SYSTEM

\* "if context:" is false for None and for the empty string.
Truthy(c) == c # NoneVal /\ c[1] # <<>>

\* lines 151-169
UserContent(d, c) ==
    Dedent(DiffTemplate(d)) \o (IF Truthy(c) THEN Dedent(ContextTemplate(c[1])) ELSE <<>>)

\* lines 171-174
Conversation(d, c, exists, text) ==
    << [role |-> "system", content |-> SystemMessage(exists, text)],
       [role |-> "user", content |-> UserContent(d, c)] >>

BuildMessages ==
    /\ pc = "build"
    /\ messages' = Conversation(diff[1], context, prompt_exists, prompt_text)
    /\ pc' = "request"
    /\ UNCHANGED <<environ, run_timeout, prompt_exists, prompt_text, args, diff,
                   context, stderr, stdout, exit_code, subprocess_calls,
                   network_calls, git_outcome>>
    /\ UNCHANGED collectVars

CollectIdle ==
    /\ cpc = "idle"
    /\ repo_root = <<>>
    /\ tree = {}
    /\ max_chars = 0
    /\ entries = <<>>
    /\ idx = 0
    /\ context_chunks = <<>>
    /\ current_len = 0
    /\ result = NoneVal

\* Longest diff, context and prompt text tried.
MaxDiffLen == 4
MaxContextLen == 3
MaxPromptLen == 2

TextChars == {" ", "\n", "a"}
Diffs == {Some(d) : d \in SeqsUpTo(TextChars, MaxDiffLen)}
Contexts == {Some(c) : c \in SeqsUpTo(TextChars, MaxContextLen)} \cup {NoneVal}
PromptTexts == SeqsUpTo(TextChars, MaxPromptLen)

\* build_messages called on its own, on every diff, context and prompt file.
InitMsg ==
    /\ pc = "build"
    /\ environ = NoneVal
    /\ run_timeout = 0
    /\ \E e \in BOOLEAN, t \in PromptTexts :
          /\ prompt_exists = e
          /\ prompt_text = t
          /\ e \/ t = <<>>
    /\ args = NoneVal
    /\ diff \in Diffs
    /\ context \in Contexts
    /\ messages = <<>>
    /\ stderr = <<>>
    /\ stdout = <<>>
    /\ exit_code = NoneVal
    /\ subprocess_calls = 0
    /\ network_calls = 0
    /\ git_outcome = "not_run"
    /\ CollectIdle

SpecMsg == InitMsg /\ [][BuildMessages]_vars

(***************************************************************************)
(* run, get_commit_diff and main                                           *)
(***************************************************************************)
\* RUN_TIMEOUT's default, line 43.
DEFAULT_RUN_TIMEOUT == 10

RunTimeouts == {-1, 0, DEFAULT_RUN_TIMEOUT}

\* subprocess.run(cmd, check=True, ...) of lines 56-66: the command ends with
\* status zero, or with another status (CalledProcessError), or, when a
\* timeout was passed ("if timeout and timeout > 0"), outlasts it
\* (TimeoutExpired).
RunOutcomes(timeout) ==
    {"ok", "nonzero"} \cup (IF timeout # 0 /\ timeout > 0 THEN {"timeout"} ELSE {})

Commits == {"HEAD", "abc123"}

ApiKeys == {NoneVal, Some(<<>>), Some(<<"k">>)}

\* A variant that tests only for None.
ApiKeyMissingNoneOnly(key) == key = NoneVal

\* "if not api_key": None or the empty string, line 190.
ApiKeyMissing(key) == IF key = NoneVal THEN TRUE ELSE key[1] = <<>>

Line(kind, commit) == [kind |-> kind, commit |-> commit]

Exit(code) ==
    /\ exit_code' = Some(code)
    /\ pc' = "exited"

\* lines 180-183: parse_args accepts the command line,
ParseArgsOk ==
    /\ pc = "start"
    /\ \E c \in Commits, nc \in BOOLEAN :
          args' = Some([commit |-> c, no_context |-> nc])
    /\ pc' = "dotenv"
    /\ UNCHANGED <<environ, run_timeout, prompt_exists, prompt_text, diff, context,
                   messages, stderr, stdout, exit_code, subprocess_calls,
                   network_calls, git_outcome>>
    /\ UNCHANGED collectVars

\* or prints the help text and exits with status 0 (--help),
ParseArgsHelp ==
    /\ pc = "start"
    /\ stdout' = Append(stdout, Line("help", NoneVal))
    /\ Exit(0)
    /\ UNCHANGED <<environ, run_timeout, prompt_exists, prompt_text, args, diff,
                   context, messages, stderr, subprocess_calls, network_calls,
                   git_outcome>>
    /\ UNCHANGED collectVars

\* or rejects it: usage on standard error, status 2.
ParseArgsError ==
    /\ pc = "start"
    /\ stderr' = Append(stderr, Line("usage", NoneVal))
    /\ Exit(2)
    /\ UNCHANGED <<environ, run_timeout, prompt_exists, prompt_text, args, diff,
                   context, messages, stdout, subprocess_calls, network_calls,
                   git_outcome>>
    /\ UNCHANGED collectVars

\* line 187: load_dotenv sets the variables of a .env file that the
\* environment does not already hold.
LoadDotenv ==
    /\ pc = "dotenv"
    /\ \E file \in ApiKeys : environ' = IF environ = NoneVal THEN file ELSE environ
    /\ pc' = "check_key"
    /\ UNCHANGED <<run_timeout, prompt_exists, prompt_text, args, diff, context,
                   messages, stderr, stdout, exit_code, subprocess_calls,
                   network_calls, git_outcome>>
    /\ UNCHANGED collectVars

\* lines 189-192
MissingKey ==
    /\ pc = "check_key"
    /\ ApiKeyMissing(environ)
    /\ stderr' = Append(stderr, Line("missing_key", NoneVal))
    /\ Exit(1)
    /\ UNCHANGED <<environ, run_timeout, prompt_exists, prompt_text, args, diff,
                   context, messages, stdout, subprocess_calls, network_calls,
                   git_outcome>>
    /\ UNCHANGED collectVars

\* lines 194-201: the model name is read and the client built, no request yet
KeyPresent ==
    /\ pc = "check_key"
    /\ ~ApiKeyMissing(environ)
    /\ pc' = "get_diff"
    /\ UNCHANGED <<environ, run_timeout, prompt_exists, prompt_text, args, diff,
                   context, messages, stderr, stdout, exit_code, subprocess_calls,
                   network_calls, git_outcome>>
    /\ UNCHANGED collectVars

MainDiffs == {Some(<<"a">>), Some(<<"a", "\n", " ", "b">>)}

\* lines 128, 134 and 203: git show ends with status zero
DiffOk ==
    /\ pc = "get_diff"
    /\ "ok" \in RunOutcomes(run_timeout)
    /\ git_outcome' = "ok"
    /\ subprocess_calls' = subprocess_calls + 1
    /\ diff' \in MainDiffs
    /\ pc' = "context"
    /\ UNCHANGED <<environ, run_timeout, prompt_exists, prompt_text, args, context,
                   messages, stderr, stdout, exit_code, network_calls>>
    /\ UNCHANGED collectVars

\* A variant that reports the failure and goes on with an empty diff.
DiffNonZeroGoesOn ==
    /\ pc = "get_diff"
    /\ "nonzero" \in RunOutcomes(run_timeout)
    /\ git_outcome' = "nonzero"
    /\ subprocess_calls' = subprocess_calls + 1
    /\ stderr' = Append(stderr, Line("diff_error", Some(args[1].commit)))
    /\ diff' = Some(<<>>)
    /\ pc' = "context"
    /\ UNCHANGED <<environ, run_timeout, prompt_exists, prompt_text, args, context,
                   messages, stdout, exit_code, network_calls>>
    /\ UNCHANGED collectVars

\* lines 129-133: git show ends with another status.  The handler prints
\* "Error obtaining diff for commit <commit>: <stderr>" and exits with 1;
\* when the captured bytes are not UTF-8 its decode() raises inside the
\* handler and the interpreter prints the traceback of both exceptions, the
\* first of which shows the command line, and exits with 1.
DiffNonZero ==
    /\ pc = "get_diff"
    /\ "nonzero" \in RunOutcomes(run_timeout)
    /\ git_outcome' = "nonzero"
    /\ subprocess_calls' = subprocess_calls + 1
    /\ \E utf8 \in BOOLEAN :
          stderr' = Append(stderr,
                           Line(IF utf8 THEN "diff_error" ELSE "traceback",
                                Some(args[1].commit)))
    /\ Exit(1)
    /\ UNCHANGED <<environ, run_timeout, prompt_exists, prompt_text, args, diff,
                   context, messages, stdout, network_calls>>
    /\ UNCHANGED collectVars

\* git show outlasts the timeout: TimeoutExpired is no CalledProcessError,
\* so the handler of line 129 does not catch it and it leaves main; the
\* interpreter prints the traceback and exits with 1.
DiffTimeout ==
    /\ pc = "get_diff"
    /\ "timeout" \in RunOutcomes(run_timeout)
    /\ git_outcome' = "timeout"
    /\ subprocess_calls' = subprocess_calls + 1
    /\ stderr' = Append(stderr, Line("traceback", Some(args[1].commit)))
    /\ Exit(1)
    /\ UNCHANGED <<environ, run_timeout, prompt_exists, prompt_text, args, diff,
                   context, messages, stdout, network_calls>>
    /\ UNCHANGED collectVars

\* lines 205-207 under --no-context
SkipContext ==
    /\ pc = "context"
    /\ args[1].no_context
    /\ context' = NoneVal
    /\ pc' = "build"
    /\ UNCHANGED <<environ, run_timeout, prompt_exists, prompt_text, args, diff,
                   messages, stderr, stdout, exit_code, subprocess_calls,
                   network_calls, git_outcome>>
    /\ UNCHANGED collectVars

MainTrees ==
    { {},
      { f \in CandidateFiles :
          f.path \in {<<N_a_py>>, <<N_b_PNG>>, <<N_d, N_m_md>>, <<N_d, N_z_md>>} } }

\* MAX_CONTEXT_CHARS' default is 100000 (line 206); the trees being small,
\* a budget for one chunk and one for all stand for a small and a large one.
MainBudgets == {20, MaxBudget}

\* lines 206-209: the call of collect_repo_context on the repository root.
CallCollect ==
    /\ pc = "context"
    /\ ~args[1].no_context
    /\ pc' = "collecting"
    /\ cpc' = "loop"
    /\ repo_root' \in Roots
    /\ tree' \in MainTrees
    /\ max_chars' \in MainBudgets
    /\ entries' = SortedEntries(tree')
    /\ idx' = 1
    /\ context_chunks' = <<>>
    /\ current_len' = 0
    /\ result' = NoneVal
    /\ UNCHANGED <<environ, run_timeout, prompt_exists, prompt_text, args, diff,
                   context, messages, stderr, stdout, exit_code, subprocess_calls,
                   network_calls, git_outcome>>

\* line 209: the returned string becomes main's context.
ContextCollected ==
    /\ pc = "collecting"
    /\ cpc = "returned"
    /\ context' = result
    /\ pc' = "build"
    /\ UNCHANGED <<environ, run_timeout, prompt_exists, prompt_text, args, diff,
                   messages, stderr, stdout, exit_code, subprocess_calls,
                   network_calls, git_outcome>>
    /\ UNCHANGED collectVars

Reviews == {<<"o", "k">>, <<" ", "o", "k", "\n">>}

\* lines 213-224: the request succeeds and the review is printed.
ReviewPrinted ==
    /\ pc = "request"
    /\ network_calls' = network_calls + 1
    /\ \E r \in Reviews :
          stdout' = stdout \o <<Line("banner", NoneVal), Line(Strip(r), NoneVal)>>
    /\ Exit(0)
    /\ UNCHANGED <<environ, run_timeout, prompt_exists, prompt_text, args, diff,
                   context, messages, stderr, subprocess_calls, git_outcome>>
    /\ UNCHANGED collectVars

\* lines 218-220: the client raises.
RequestFailed ==
    /\ pc = "request"
    /\ network_calls' = network_calls + 1
    /\ stderr' = Append(stderr, Line("api_error", NoneVal))
    /\ Exit(1)
    /\ UNCHANGED <<environ, run_timeout, prompt_exists, prompt_text, args, diff,
                   context, messages, stdout, subprocess_calls, git_outcome>>
    /\ UNCHANGED collectVars

Init ==
    /\ pc = "start"
    /\ environ \in ApiKeys
    /\ run_timeout \in RunTimeouts
    /\ \E p \in {<<FALSE, <<>>>>, <<TRUE, <<>>>>, <<TRUE, <<"a">>>>} :
          /\ prompt_exists = p[1]
          /\ prompt_text = p[2]
    /\ args = NoneVal
    /\ diff = NoneVal
    /\ context = NoneVal
    /\ messages = <<>>
    /\ stderr = <<>>
    /\ stdout = <<>>
    /\ exit_code = NoneVal
    /\ subprocess_calls = 0
    /\ network_calls = 0
    /\ git_outcome = "not_run"
    /\ CollectIdle

Next ==
    \/ ParseArgsOk
    \/ ParseArgsHelp
    \/ ParseArgsError
    \/ LoadDotenv
    \/ MissingKey
    \/ KeyPresent
    \/ DiffOk
    \/ DiffNonZero
    \/ DiffTimeout
    \/ SkipContext
    \/ CallCollect
    \/ CollectStep
    \/ ContextCollected
    \/ BuildMessages
    \/ ReviewPrinted
    \/ RequestFailed

Spec == Init /\ [][Next]_vars

(***************************************************************************)
(* Properties of collect_repo_context.                                     *)
(***************************************************************************)
Returned == cpc = "returned"

\* The returned string.
Result == result[1]

\* The loop was left by the break of line 117.
StoppedByBudget == Returned /\ idx <= Len(entries)

FileChunk(f) == Chunk(f.path, f.text)

ChunksOf(fs) == Flatten([i \in 1..Len(fs) |-> FileChunk(fs[i])])

\* The text is whole chunks of files of the tree, in sorted order.
WholeChunks(text, t) == \E S \in SUBSET t : text = ChunksOf(SortedSeq(S))

\* C1 as stated: for every tree and every integer max_chars the returned
\* string is at most max_chars long and is a concatenation of whole chunks.
C1_AsStated ==
    Returned => Len(Result) <= max_chars /\ WholeChunks(Result, tree)

\* C1 amended: the returned string is a concatenation of whole chunks for
\* every integer max_chars, and at most max_chars long when max_chars >= 0
\* (a negative max_chars yields the empty string, which is longer than it).
C1_LengthAndWholeChunks ==
    Returned =>
        /\ WholeChunks(Result, tree)
        /\ max_chars >= 0 => Len(Result) <= max_chars
        /\ max_chars < 0 => Result = <<>>

C1_Witness ==
    /\ StoppedByBudget
    /\ max_chars >= 0
    /\ Result # <<>>
    /\ Len(Result) = max_chars

HasExcludedComponent(rel) == \E i \in 1..Len(rel) : rel[i] \in EXCLUDE_DIRS

HasBinaryExtension(rel) == Lower(Suffix(rel)) \in EXCLUDE_EXTENSIONS

\* C2: the returned context holds no chunk of a file that has an excluded
\* directory name among its path components, at any depth, nor of a file
\* whose extension, lower-cased, is a binary one, valid text or not.
C2_NoExcludedFile ==
    Returned =>
        \A f \in tree :
            HasExcludedComponent(f.path) \/ HasBinaryExtension(f.path)
                => ~Contains(Result, ChunkHeader(f.path))

C2_Witness ==
    /\ Returned
    /\ repo_root = PlainRoot
    /\ idx > Len(entries)
    /\ Result # <<>>
    /\ \E f \in tree : Len(f.path) = 3 /\ HasExcludedComponent(f.path) /\ f.decodable
    /\ \E f \in tree : HasBinaryExtension(f.path) /\ f.decodable
                       /\ Suffix(f.path) \notin EXCLUDE_EXTENSIONS

\* The files of tree t that sit below no excluded name of base \o their
\* relative path, have no binary extension and are decodable, in sorted order.
EligibleSeq(t, base) ==
    SelectSeq(SortedEntries(t),
              LAMBDA e : /\ ~e.is_dir
                         /\ ~HasExcludedComponent(base \o e.path)
                         /\ ~HasBinaryExtension(e.path)
                         /\ e.decodable)

\* text is the chunks of the first k files of E, where E[k + 1], if any, is
\* the first whose chunk would push the total above the limit.
IsStopPrefix(text, E, limit) ==
    \E k \in 0..Len(E) :
        /\ text = ChunksOf(SubSeq(E, 1, k))
        /\ k > 0 => Len(text) <= limit
        /\ k < Len(E) => Len(text) + Len(FileChunk(E[k + 1])) > limit

\* C9: the context is the chunks of a prefix of the sorted eligible files
\* (no excluded directory name in the path the collector walks, no binary
\* extension, decodable); the
\* prefix ends at the first eligible file whose chunk would push the total
\* above max_chars, and nothing after that file is included even if it
\* would fit; skipped files neither use budget nor end the collection.
C9_StopAtFirstOverflow ==
    Returned => IsStopPrefix(Result, EligibleSeq(tree, repo_root), max_chars)

\* The loop was left by the break while a later eligible file would have fit,
\* after an excluded or undecodable file had been passed over.
C9_Witness ==
    /\ StoppedByBudget
    /\ Result # <<>>
    /\ \E j \in (idx + 1)..Len(entries) :
          /\ ~entries[j].is_dir /\ entries[j].decodable
          /\ ~ExcludedByDir(repo_root, entries[j].path)
          /\ ~ExcludedByExtension(entries[j].path)
          /\ current_len + Len(FileChunk(entries[j])) <= max_chars
    /\ \E j \in 1..(idx - 1) :
          ~entries[j].is_dir /\ ExcludedByExtension(entries[j].path)

\* C10: the context is a function of the tree below the root and of the
\* budget alone: wherever the root lies, it is the stop prefix of the files
\* whose path relative to the root has no excluded component.
C10_RootIndependent ==
    Returned => IsStopPrefix(Result, EligibleSeq(tree, <<>>), max_chars)

(***************************************************************************)
(* Properties of build_messages.                                           *)
(***************************************************************************)
Built == pc = "request"

SystemContent == messages[1].content
UserText == messages[2].content

\* Index of the first element of text at or after position from that equals
\* atom, 0 when there is none.
IndexFrom(text, atom, from) ==
    LET hits == {i \in from..Len(text) : text[i] = atom}
    IN  IF hits = {} THEN 0 ELSE CHOOSE i \in hits : \A j \in hits : i <= j

\* What stands between the fence at position open and the next plain fence.
FencedBody(text, open) ==
    SubSeq(text, open + 1, IndexFrom(text, FENCE, open + 1) - 1)

DiffOpen == IndexFrom(UserText, FENCE_DIFF, 1)
DiffClose == IndexFrom(UserText, FENCE, DiffOpen + 1)
ContextLead == IndexFrom(UserText, LEAD_CONTEXT, 1)
ContextOpen == IndexFrom(UserText, FENCE, ContextLead + 1)

TwoMessages ==
    /\ Len(messages) = 2
    /\ messages[1].role = "system"
    /\ messages[2].role = "user"

DiffVerbatim ==
    /\ DiffOpen > 0
    /\ DiffClose > 0
    /\ Contains(FencedBody(UserText, DiffOpen), diff[1])

\* C3: with no context, every diff yields exactly two messages, system then
\* user, and the user message holds the diff unaltered inside the fenced diff
\* block.
C3_DiffVerbatim ==
    Built /\ context = NoneVal =>
        TwoMessages /\ DiffVerbatim /\ ContextLead = 0

\* C4: with a non-empty context, the user message holds the diff and the
\* context, each unaltered, the context's fenced block after the diff's.
C4_DiffAndContextVerbatim ==
    Built /\ Truthy(context) =>
        /\ DiffVerbatim
        /\ ContextLead > DiffClose
        /\ ContextOpen > ContextLead
        /\ Contains(FencedBody(UserText, ContextOpen), context[1])

\* C5: the system message is the prompt file's text only when the file exists
\* and is not empty (nor whitespace only); otherwise it is the built-in
\* instruction; it is never empty.
C5_SystemMessage ==
    Built =>
        /\ SystemContent =
              IF prompt_exists /\ Strip(prompt_text) # <<>>
              THEN Strip(prompt_text)
              ELSE DEFAULT_SYSTEM
        /\ SystemContent # <<>>

(***************************************************************************)
(* Properties of main.                                                     *)
(***************************************************************************)
Exited == pc = "exited"

Printed(stream, kind) == \E i \in 1..Len(stream) : stream[i].kind = kind

NoExternalWork == subprocess_calls = 0 /\ network_calls = 0

\* The credential variable is unset or empty.
KeyUnsetOrEmpty == environ \in {NoneVal, Some(<<>>)}

\* C6 as stated: every run of main in which OPENAI_API_KEY is unset or empty
\* prints a message on standard error and exits with status 1, with no
\* subprocess and no network call.
C6_AsStated ==
    Exited /\ KeyUnsetOrEmpty =>
        /\ exit_code = Some(1)
        /\ stderr # <<>>
        /\ NoExternalWork

\* C6 amended: in every run whose command line the argument parser accepts
\* and in which OPENAI_API_KEY, as read after the .env file was loaded, is
\* unset or empty, main prints the message on standard error and exits with
\* status 1 at the credential check; and in no run with the variable unset or
\* empty, nor before the check, is a subprocess started or a request sent.
C6_MissingKeyExits ==
    /\ pc \in {"start", "dotenv", "check_key"} => NoExternalWork
    /\ KeyUnsetOrEmpty => NoExternalWork
    /\ KeyUnsetOrEmpty /\ args # NoneVal /\ pc \notin {"dotenv", "check_key"} =>
          /\ Exited
          /\ exit_code = Some(1)
          /\ stderr = <<Line("missing_key", NoneVal)>>
          /\ stdout = <<>>

C6_Witness ==
    /\ Exited
    /\ args # NoneVal
    /\ environ = Some(<<>>)
    /\ exit_code = Some(1)

\* C7: when git show ends with a non-zero status, main prints on standard
\* error a diagnostic that holds the commit reference and exits with status
\* 1; no diff is returned, no context collected, no request sent and nothing
\* printed on standard output.
C7_GitFailureIsFatal ==
    git_outcome = "nonzero" =>
        /\ Exited
        /\ exit_code = Some(1)
        /\ \E i \in 1..Len(stderr) : stderr[i].commit = Some(args[1].commit)
        /\ diff = NoneVal
        /\ cpc = "idle"
        /\ context = NoneVal
        /\ network_calls = 0
        /\ stdout = <<>>

C7_Witness ==
    /\ git_outcome = "nonzero"
    /\ Printed(stderr, "diff_error")
    /\ args[1].commit = "abc123"
    /\ ~args[1].no_context

\* C8: a timeout of git show is handled like a non-zero exit: the diff
\* fetcher reports it on standard error and the process exits non-zero,
\* with no request sent.
C8_TimeoutReported ==
    git_outcome = "timeout" =>
        /\ Exited
        /\ exit_code # Some(0)
        /\ Printed(stderr, "diff_error")
        /\ network_calls = 0

====
